---- MODULE Spec2Model ----
(***************************************************************************)
(* State-machine model of trustyai_tests/setup/setup_cluster.py: the run   *)
(* of setup_cluster, its three polling loops, the operator installation    *)
(* loop and the two resource creations, against a cluster whose list calls *)
(* return arbitrary results.                                               *)
(***************************************************************************)
EXTENDS Integers, Sequences, FiniteSets, TLC

(***************************************************************************)
(* Program constants.                                                      *)
(***************************************************************************)
RECHECK_INTERVAL == 5

CatalogMaxWait == 300

ManifestMaxWait == 900

InstallTimeout == 600

(***************************************************************************)
(* Bounds of the model.                                                    *)
(***************************************************************************)
\* longest operator list a configuration file holds
MaxOps == 2

\* longest pod list a namespace returns
MaxPods == 2

\* most pieces a template document is put together from
MaxPieces == 3

(***************************************************************************)
(* Values of the model: names, operator entries, pods, lists.              *)
(***************************************************************************)
\* catalog-source names a CatalogSource list call can return, in list order
CatalogNames == <<"c1", "c2">>

\* package-manifest names a PackageManifest list call can return
ManifestNames == <<"n1", "n2">>

Namespaces == {"ns1", "ns2"}

\* pod names and pod-name substrings are character sequences
TargetAB == <<"a", "b">>

TargetBA == <<"b", "a">>

\* the entries a configuration file is built from
OperatorSpecs ==
  { [name |-> "n1", channel |-> "stable", catalogSource |-> "c1",
     namespace |-> "ns1", version |-> "1.0",
     correspondingPods |-> <<TargetAB>>],
    [name |-> "n2", channel |-> "fast", catalogSource |-> "c2",
     namespace |-> "ns2", version |-> "2.1",
     correspondingPods |-> <<TargetAB, TargetBA>>] }

\* the operator lists yaml.load can return: every list of at most MaxOps entries
Configs == UNION { [1..n -> OperatorSpecs] : n \in 0..MaxOps }

\* containerStatuses of a pod: the 'started' flag of each container
\* the pods a Pod list call can return, in list order
PodUniverse ==
  << [name |-> <<"a", "b", "a">>, containerStatuses |-> <<FALSE>>],
     [name |-> <<"a", "b", "a">>, containerStatuses |-> <<TRUE>>],
     [name |-> <<"a", "b", "a">>, containerStatuses |-> <<TRUE, TRUE>>],
     [name |-> <<"c", "a", "b">>, containerStatuses |-> <<FALSE>>],
     [name |-> <<"c", "a", "b">>, containerStatuses |-> <<TRUE, FALSE>>],
     [name |-> <<"c", "a", "b">>, containerStatuses |-> <<TRUE, TRUE>>] >>

\* the placeholder token of the template, as characters
PLACEHOLDER ==
  << "T", "R", "U", "S", "T", "Y", "A", "I", "_", "R", "E", "P", "O", "_",
     "P", "L", "A", "C", "E", "H", "O", "L", "D", "E", "R" >>

\* "TRUSTYAI_REPO_" and "PLACEHOLDER": side by side they spell the token
TokenHead == SubSeq(PLACEHOLDER, 1, 14)

TokenTail == SubSeq(PLACEHOLDER, 15, Len(PLACEHOLDER))

\* the pieces a template document is put together from
TemplatePieces == { PLACEHOLDER, TokenHead, TokenTail, <<"x">> }

RECURSIVE Join(_)
\* the pieces of a document, one after the other
Join(pieces) ==
  IF pieces = <<>> THEN <<>> ELSE Head(pieces) \o Join(Tail(pieces))

\* the contents manifests/dsc_template.yaml can have
Templates ==
  { Join(p) : p \in UNION { [1..n -> TemplatePieces] : n \in 0..MaxPieces } }

\* the values trustyai_manifests_url can have: empty, plain, a part of the
\* token, the token itself
Urls == { <<>>, <<"u">>, <<"x", "u">>, TokenTail, PLACEHOLDER }

Min(S) == CHOOSE x \in S : \A y \in S : x <= y

RECURSIVE PickInOrder(_, _)
\* the elements of sequence U at the positions S, in U's order
PickInOrder(U, S) ==
  IF S = {} THEN <<>>
  ELSE <<U[Min(S)]>> \o PickInOrder(U, S \ {Min(S)})

\* the lists of at most n elements a list call over universe U can return
ListsOver(U, n) ==
  { PickInOrder(U, S) : S \in { T \in SUBSET (1..Len(U)) : Cardinality(T) <= n } }

SourceLists == ListsOver(CatalogNames, Len(CatalogNames))

ManifestLists == ListsOver(ManifestNames, Len(ManifestNames))

PodLists == ListsOver(PodUniverse, MaxPods)

(***************************************************************************)
(* Pure functions of the program.                                          *)
(***************************************************************************)
\* x in list (Python membership in a list)
InList(x, list) == \E i \in 1..Len(list) : list[i] = x

\* target in name (Python substring test on strings)
InString(target, name) ==
  \E k \in 0..(Len(name) - Len(target)) :
     SubSeq(name, k + 1, k + Len(target)) = target

RECURSIVE ScanManifests(_, _)
\* the for loop over package_manifests: found on the first name equal to the
\* operator's name
ScanManifests(package_manifests, name) ==
  IF package_manifests = <<>> THEN FALSE
  ELSE IF Head(package_manifests) = name THEN TRUE
  ELSE ScanManifests(Tail(package_manifests), name)

RECURSIVE SumStarted(_)
\* sum([1 for container in containerStatuses if container['started']])
SumStarted(containerStatuses) ==
  IF containerStatuses = <<>> THEN 0
  ELSE (IF Head(containerStatuses) THEN 1 ELSE 0) + SumStarted(Tail(containerStatuses))

\* the pod condition with "at least one started container"
PodMatchesAnyStarted(pod, target_pod_name) ==
  InString(target_pod_name, pod.name) /\ SumStarted(pod.containerStatuses) >= 1

\* the condition of the if in the pod loop
PodMatches(pod, target_pod_name) ==
  InString(target_pod_name, pod.name) /\ SumStarted(pod.containerStatuses) = 1

RECURSIVE ScanPods(_, _)
\* the for loop over running_pods: found on the first matching pod
ScanPods(running_pods, target_pod_name) ==
  IF running_pods = <<>> THEN FALSE
  ELSE IF PodMatches(Head(running_pods), target_pod_name) THEN TRUE
  ELSE ScanPods(Tail(running_pods), target_pod_name)

RECURSIVE ReplaceFirst(_, _, _)
\* template.replace(old, new, 1): only the first occurrence is replaced
ReplaceFirst(template, old, new) ==
  IF Len(template) < Len(old) THEN template
  ELSE IF SubSeq(template, 1, Len(old)) = old
       THEN new \o SubSeq(template, Len(old) + 1, Len(template))
       ELSE <<Head(template)>> \o ReplaceFirst(Tail(template), old, new)

RECURSIVE Replace(_, _, _)
\* template.replace(old, new) for a non-empty old: the occurrences of old,
\* found from left to right without overlap, each replaced by new
Replace(template, old, new) ==
  IF Len(template) < Len(old) THEN template
  ELSE IF SubSeq(template, 1, Len(old)) = old
       THEN new \o Replace(SubSeq(template, Len(old) + 1, Len(template)), old, new)
       ELSE <<Head(template)>> \o Replace(Tail(template), old, new)

\* the starting version without the "v" prefix
StartingCsvNoPrefix(name, version) == name \o "." \o version

\* "{}.v{}".format(name, version)
StartingCsv(name, version) == name \o ".v" \o version

\* the keyword arguments of one install_operator call
InstallRequest(operator) ==
  [name |-> operator.name,
   channel |-> operator.channel,
   source |-> operator.catalogSource,
   operator_namespace |-> operator.namespace,
   target_namespaces |-> <<>>,
   timeout |-> InstallTimeout,
   install_plan_approval |-> "Manual",
   starting_csv |-> StartingCsv(operator.name, operator.version)]

\* the cache assigned only while it is still None
RememberFirstOnly(previous, fresh, ns) ==
  IF previous.valid THEN previous
  ELSE [valid |-> TRUE, items |-> fresh, ns |-> ns]

\* previous_return_list = <the list just fetched>
Remember(previous, fresh, ns) == [valid |-> TRUE, items |-> fresh, ns |-> ns]

\* the loop counter left as it is
NextTryForgotten(t) == t

\* tries += 1
NextTry(t) == t + 1

\* the attempt limits of the three while loops
CatalogLimit == CatalogMaxWait \div RECHECK_INTERVAL

ManifestLimit == ManifestMaxWait \div RECHECK_INTERVAL

\* a pod limit that leaves no re-check after the first sleep
PodLimitNoRecheck == RECHECK_INTERVAL - RECHECK_INTERVAL

PodLimit == RECHECK_INTERVAL \div RECHECK_INTERVAL

\* setup_cluster with install_operators called before wait_for_package_manifests
NextStageInstallFirst(stage) ==
  CASE stage = "load" -> "cs"
    [] stage = "cs" -> "install"
    [] stage = "install" -> "pm"
    [] stage = "pm" -> "pods"
    [] stage = "pods" -> "dsci"
    [] stage = "dsci" -> "dsc"
    [] OTHER -> "Done"

\* the order of the calls in setup_cluster
NextStage(stage) ==
  CASE stage = "load" -> "cs"
    [] stage = "cs" -> "pm"
    [] stage = "pm" -> "install"
    [] stage = "install" -> "pods"
    [] stage = "pods" -> "dsci"
    [] stage = "dsci" -> "dsc"
    [] OTHER -> "Done"

\* setup_cluster with the exception of a stage caught and ignored
AfterRaiseSwallowed(stage) == NextStage(stage)

\* an exception raised in a stage is not caught by setup_cluster: the run ends
AfterRaise(stage) == "Failed"

\* the except clause logging the error without raising it again
AfterConfigNotFoundLogged == NextStage("load")

\* the except clause of setup_cluster logs the FileNotFoundError and raises it
\* again: the run ends
AfterConfigNotFound == AfterRaise("load")

RECURSIVE NextTarget(_, _, _)
\* the nested for loops of verify_operator_running: the position after pod p
\* of operator o, <<0, 0>> when both loops are exhausted
NextTarget(data, o, p) ==
  IF o > Len(data) THEN <<0, 0>>
  ELSE IF p < Len(data[o].correspondingPods) THEN <<o, p + 1>>
  ELSE NextTarget(data, o + 1, 0)

(***************************************************************************)
(* State.                                                                  *)
(***************************************************************************)
VARIABLES
  pc,                    \* the stage of setup_cluster, "Done" or "Failed"
  loc,                   \* position in the stage's function: entry, for, while
  operator_data,         \* the loaded operator list
  failure,               \* the exception that ended the run
  catalog_sources,       \* catalog sources the for loop has yet to visit
  catalog_source,        \* the catalog source being awaited
  op,                    \* index of the operator of the current loop iteration
  podIdx,                \* index of target_pod_name in correspondingPods
  tries,
  found,
  previous_return_list,  \* the cached list, and the namespace it was listed from
  lastProbe,             \* the most recent list call of the running poll function
  cluster,               \* what the list calls of the running poll can return
  attempts,              \* iterations of the while loop made for the target
  probes,                \* list calls issued for the target
  slept,                 \* seconds slept for the target
  csProbes,              \* list calls issued by this call of wait_for_catalog_sources
  last,                  \* the most recent iteration of a while loop
  requests,              \* the install_operator calls issued, in order
  installed,             \* how many install_operator calls returned
  created,               \* the resources whose create() returned, in order
  submitted,             \* the template read, the URL given and the document built
  trace,                 \* the stages that issued cluster calls, in order
  done                   \* the targets each stage has completed

vars == <<pc, loc, operator_data, failure, catalog_sources, catalog_source, op,
          podIdx, tries, found, previous_return_list, lastProbe, cluster, attempts, probes,
          slept, csProbes, last, requests, installed, created, submitted, trace, done>>

NoFailure == [kind |-> "none", stage |-> "none", op |-> 0, pod |-> 0, name |-> ""]

NoList == [valid |-> FALSE, items |-> <<>>, ns |-> ""]

NoProbe == [valid |-> FALSE, items |-> <<>>, op |-> 0, pod |-> 0]

NoDocument == [valid |-> FALSE, template |-> <<>>, url |-> <<>>, config |-> <<>>]

NoAttempt ==
  [poll |-> "none", usedCache |-> FALSE, fetched |-> FALSE, consulted |-> <<>>,
   listNs |-> "", tries |-> 0, satisfied |-> FALSE, slept |-> FALSE,
   outcome |-> "none"]

NoneDone == [cs |-> {}, pm |-> {}, install |-> {}, pods |-> {}]

\* a cluster whose list calls may return anything
Dynamic ==
  [static |-> FALSE, manifests |-> <<>>, pods |-> [ns \in Namespaces |-> <<>>]]

\* the clusters a call of wait_for_package_manifests can run against
ManifestClusters ==
  {Dynamic} \cup
  { [static |-> TRUE, manifests |-> m, pods |-> [ns \in Namespaces |-> <<>>]] :
      m \in ManifestLists }

\* the clusters a call of verify_operator_running can run against
PodClusters ==
  {Dynamic} \cup
  { [static |-> TRUE, manifests |-> <<>>, pods |-> f] :
      f \in [Namespaces -> PodLists] }

\* what list(PackageManifest.get(dyn_client=client)) can return
ProbeManifests == IF cluster.static THEN {cluster.manifests} ELSE ManifestLists

\* what list(Pod.get(dyn_client=client, namespace=ns)) can return
ProbePods(ns) == IF cluster.static THEN {cluster.pods[ns]} ELSE PodLists

\* the stage joins the call trace when it issues a cluster call
Called(stage) ==
  IF trace # <<>> /\ trace[Len(trace)] = stage THEN trace ELSE Append(trace, stage)

Init ==
  /\ pc = "load"
  /\ loc = "entry"
  /\ operator_data = <<>>
  /\ failure = NoFailure
  /\ catalog_sources = {}
  /\ catalog_source = ""
  /\ op = 0
  /\ podIdx = 0
  /\ tries = 0
  /\ found = FALSE
  /\ previous_return_list = NoList
  /\ lastProbe = NoProbe
  /\ cluster = Dynamic
  /\ attempts = 0
  /\ probes = 0
  /\ slept = 0
  /\ csProbes = 0
  /\ last = NoAttempt
  /\ requests = <<>>
  /\ installed = 0
  /\ created = <<>>
  /\ submitted = NoDocument
  /\ trace = <<>>
  /\ done = NoneDone

\* the locals of a function are gone when it returns
ReturnTo(stage) ==
  /\ pc' = stage
  /\ loc' = "entry"
  /\ catalog_sources' = {}
  /\ catalog_source' = ""
  /\ op' = 0
  /\ podIdx' = 0
  /\ tries' = 0
  /\ found' = FALSE
  /\ previous_return_list' = NoList
  /\ lastProbe' = NoProbe
  /\ cluster' = Dynamic
  /\ attempts' = 0
  /\ probes' = 0
  /\ slept' = 0
  /\ csProbes' = 0
  /\ last' = NoAttempt

(***************************************************************************)
(* setup_cluster: loading the configuration.                               *)
(***************************************************************************)
LoadConfig ==
  /\ pc = "load"
  /\ \E data \in Configs : operator_data' = data
  /\ pc' = NextStage("load")
  /\ UNCHANGED <<loc, failure, catalog_sources, catalog_source, op, podIdx, tries,
                 found, previous_return_list, lastProbe, cluster, attempts, probes, slept,
                 csProbes, last, requests, installed, created, submitted, trace, done>>

LoadConfigMissing ==
  /\ pc = "load"
  /\ failure' = [NoFailure EXCEPT !.kind = "FileNotFoundError", !.stage = "load"]
  /\ pc' = AfterConfigNotFound
  /\ UNCHANGED <<loc, operator_data, catalog_sources, catalog_source, op, podIdx,
                 tries, found, previous_return_list, lastProbe, cluster, attempts, probes,
                 slept, csProbes, last, requests, installed, created, submitted, trace, done>>

(***************************************************************************)
(* wait_for_catalog_sources                                                *)
(***************************************************************************)
WaitForCatalogSourcesEnter ==
  /\ pc = "cs" /\ loc = "entry"
  /\ catalog_sources' = { operator_data[i].catalogSource : i \in 1..Len(operator_data) }
  /\ loc' = "for"
  /\ UNCHANGED <<pc, operator_data, failure, catalog_source, op, podIdx, tries,
                 found, previous_return_list, lastProbe, cluster, attempts, probes, slept,
                 csProbes, last, requests, installed, created, submitted, trace, done>>

\* the for statement: the next catalog source, in the set's iteration order,
\* or the end of the function
CatalogSourcesNext ==
  /\ pc = "cs" /\ loc = "for"
  /\ IF catalog_sources = {}
     THEN /\ ReturnTo(NextStage("cs"))
          /\ UNCHANGED <<operator_data, failure, requests, installed, created, submitted,
                         trace, done>>
     ELSE /\ \E c \in catalog_sources :
               /\ catalog_source' = c
               /\ catalog_sources' = catalog_sources \ {c}
          /\ tries' = 0
          /\ loc' = "while"
          /\ attempts' = 0
          /\ probes' = 0
          /\ slept' = 0
          /\ last' = NoAttempt
          /\ UNCHANGED <<pc, operator_data, failure, op, podIdx, found,
                         previous_return_list, lastProbe, cluster, csProbes, requests,
                         installed, created, submitted, trace, done>>

\* one iteration of the while loop
CatalogSourcesAttempt ==
  /\ pc = "cs" /\ loc = "while"
  /\ \E available_sources \in SourceLists :
       LET hit == InList(catalog_source, available_sources)
           raise == ~hit /\ tries > CatalogLimit
       IN /\ attempts' = attempts + 1
          /\ probes' = probes + 1
          /\ csProbes' = csProbes + 1
          /\ trace' = Called("cs")
          /\ slept' = IF hit THEN slept ELSE slept + RECHECK_INTERVAL
          /\ last' = [poll |-> "cs", usedCache |-> FALSE, fetched |-> TRUE,
                      consulted |-> available_sources, listNs |-> "",
                      tries |-> tries, satisfied |-> hit, slept |-> ~hit,
                      outcome |-> IF hit THEN "success"
                                  ELSE IF raise THEN "timeout" ELSE "retry"]
          /\ done' = IF hit THEN [done EXCEPT !.cs = @ \cup {catalog_source}]
                     ELSE done
          /\ tries' = IF hit \/ raise THEN tries ELSE NextTry(tries)
          /\ loc' = IF raise THEN "entry" ELSE IF hit THEN "for" ELSE "while"
          /\ pc' = IF raise THEN AfterRaise("cs") ELSE pc
          /\ failure' = IF raise
                        THEN [NoFailure EXCEPT !.kind = "TimeoutError",
                                               !.stage = "cs",
                                               !.name = catalog_source]
                        ELSE failure
  /\ UNCHANGED <<operator_data, catalog_sources, catalog_source, op, podIdx, found,
                 previous_return_list, lastProbe, cluster, requests, installed, created, submitted>>

(***************************************************************************)
(* wait_for_package_manifests                                              *)
(***************************************************************************)
WaitForPackageManifestsEnter ==
  /\ pc = "pm" /\ loc = "entry"
  /\ previous_return_list' = NoList
  /\ lastProbe' = NoProbe
  /\ \E c \in ManifestClusters : cluster' = c
  /\ op' = 0
  /\ loc' = "for"
  /\ UNCHANGED <<pc, operator_data, failure, catalog_sources, catalog_source,
                 podIdx, tries, found, attempts, probes, slept, csProbes, last,
                 requests, installed, created, submitted, trace, done>>

\* the for statement: the next operator, or the end of the function
PackageManifestsNext ==
  /\ pc = "pm" /\ loc = "for"
  /\ IF op >= Len(operator_data)
     THEN /\ ReturnTo(NextStage("pm"))
          /\ UNCHANGED <<operator_data, failure, requests, installed, created, submitted,
                         trace, done>>
     ELSE /\ op' = op + 1
          /\ tries' = 0
          /\ found' = FALSE
          /\ loc' = "while"
          /\ attempts' = 0
          /\ probes' = 0
          /\ slept' = 0
          /\ last' = NoAttempt
          /\ UNCHANGED <<pc, operator_data, failure, catalog_sources,
                         catalog_source, podIdx, previous_return_list, lastProbe, cluster,
                         csProbes, requests, installed, created, submitted, trace, done>>

\* one iteration of the while loop
PackageManifestsAttempt ==
  /\ pc = "pm" /\ loc = "while"
  /\ LET useCache == tries = 0 /\ previous_return_list.valid
     IN \E fresh \in (IF useCache THEN {previous_return_list.items}
                      ELSE ProbeManifests) :
          LET package_manifests == fresh
              hit == ScanManifests(package_manifests, operator_data[op].name)
              raise == tries > ManifestLimit
          IN /\ previous_return_list' =
                  IF useCache THEN previous_return_list
                  ELSE Remember(previous_return_list, fresh, "")
             /\ lastProbe' =
                  IF useCache THEN lastProbe
                  ELSE [valid |-> TRUE, items |-> fresh, op |-> op, pod |-> 0]
             /\ attempts' = attempts + 1
             /\ probes' = IF useCache THEN probes ELSE probes + 1
             /\ trace' = IF useCache THEN trace ELSE Called("pm")
             /\ found' = hit
             /\ slept' = IF hit THEN slept ELSE slept + RECHECK_INTERVAL
             /\ last' = [poll |-> "pm", usedCache |-> useCache,
                         fetched |-> ~useCache, consulted |-> package_manifests,
                         listNs |-> "", tries |-> tries, satisfied |-> hit,
                         slept |-> ~hit,
                         outcome |-> IF raise THEN "timeout"
                                     ELSE IF hit THEN "success" ELSE "retry"]
             /\ done' = IF hit /\ ~raise THEN [done EXCEPT !.pm = @ \cup {op}]
                        ELSE done
             /\ tries' = IF raise THEN tries ELSE NextTry(tries)
             /\ loc' = IF raise THEN "entry" ELSE IF hit THEN "for" ELSE "while"
             /\ pc' = IF raise THEN AfterRaise("pm") ELSE pc
             /\ failure' = IF raise
                           THEN [NoFailure EXCEPT !.kind = "TimeoutError",
                                                  !.stage = "pm",
                                                  !.op = op,
                                                  !.name = operator_data[op].name]
                           ELSE failure
  /\ UNCHANGED <<operator_data, catalog_sources, catalog_source, op, podIdx,
                 cluster, csProbes, requests, installed, created, submitted>>

(***************************************************************************)
(* install_operators                                                       *)
(***************************************************************************)
InstallOperatorsEnter ==
  /\ pc = "install" /\ loc = "entry"
  /\ op' = 0
  /\ loc' = "for"
  /\ UNCHANGED <<pc, operator_data, failure, catalog_sources, catalog_source,
                 podIdx, tries, found, previous_return_list, lastProbe, cluster, attempts,
                 probes, slept, csProbes, last, requests, installed, created, submitted,
                 trace, done>>

\* the for statement finds no further operator: the function returns
InstallOperatorsReturn ==
  /\ pc = "install" /\ loc = "for"
  /\ op >= Len(operator_data)
  /\ ReturnTo(NextStage("install"))
  /\ UNCHANGED <<operator_data, failure, requests, installed, created, submitted, trace, done>>

\* one iteration of the for loop: one install_operator call, which returns
\* or raises
InstallOperator ==
  /\ pc = "install" /\ loc = "for"
  /\ op < Len(operator_data)
  /\ \E ok \in BOOLEAN :
       /\ op' = op + 1
       /\ requests' = Append(requests, InstallRequest(operator_data[op + 1]))
       /\ trace' = Called("install")
       /\ installed' = IF ok THEN installed + 1 ELSE installed
       /\ done' = IF ok THEN [done EXCEPT !.install = @ \cup {op + 1}] ELSE done
       /\ pc' = IF ok THEN pc ELSE AfterRaise("install")
       /\ loc' = IF ok THEN loc ELSE "entry"
       /\ failure' = IF ok THEN failure
                     ELSE [NoFailure EXCEPT !.kind = "InstallError",
                                            !.stage = "install",
                                            !.op = op + 1,
                                            !.name = operator_data[op + 1].name]
  /\ UNCHANGED <<operator_data, catalog_sources, catalog_source, podIdx,
                 tries, found, previous_return_list, lastProbe, cluster, attempts, probes,
                 slept, csProbes, last, created, submitted>>

(***************************************************************************)
(* verify_operator_running                                                 *)
(***************************************************************************)
VerifyOperatorRunningEnter ==
  /\ pc = "pods" /\ loc = "entry"
  /\ previous_return_list' = NoList
  /\ lastProbe' = NoProbe
  /\ \E c \in PodClusters : cluster' = c
  /\ op' = 1
  /\ podIdx' = 0
  /\ loc' = "for"
  /\ UNCHANGED <<pc, operator_data, failure, catalog_sources, catalog_source,
                 tries, found, attempts, probes, slept, csProbes, last, requests,
                 installed, created, submitted, trace, done>>

\* the two for statements: the next pod-name substring, or the end of the function
OperatorPodsNext ==
  /\ pc = "pods" /\ loc = "for"
  /\ LET next == NextTarget(operator_data, op, podIdx)
     IN IF next = <<0, 0>>
        THEN /\ ReturnTo(NextStage("pods"))
             /\ UNCHANGED <<operator_data, failure, requests, installed, created, submitted,
                            trace, done>>
        ELSE /\ op' = next[1]
             /\ podIdx' = next[2]
             /\ tries' = 0
             /\ found' = FALSE
             /\ loc' = "while"
             /\ attempts' = 0
             /\ probes' = 0
             /\ slept' = 0
             /\ last' = NoAttempt
             /\ UNCHANGED <<pc, operator_data, failure, catalog_sources,
                            catalog_source, previous_return_list, lastProbe, cluster,
                            csProbes, requests, installed, created, submitted, trace, done>>

\* one iteration of the while loop
OperatorPodsAttempt ==
  /\ pc = "pods" /\ loc = "while"
  /\ LET useCache == tries = 0 /\ previous_return_list.valid
         namespace == operator_data[op].namespace
         target_pod_name == operator_data[op].correspondingPods[podIdx]
     IN \E fresh \in (IF useCache THEN {previous_return_list.items}
                      ELSE ProbePods(namespace)) :
          LET running_pods == fresh
              hit == ScanPods(running_pods, target_pod_name)
              raise == tries > PodLimit
          IN /\ previous_return_list' =
                  IF useCache THEN previous_return_list
                  ELSE Remember(previous_return_list, fresh, namespace)
             /\ lastProbe' =
                  IF useCache THEN lastProbe
                  ELSE [valid |-> TRUE, items |-> fresh, op |-> op, pod |-> podIdx]
             /\ attempts' = attempts + 1
             /\ probes' = IF useCache THEN probes ELSE probes + 1
             /\ trace' = IF useCache THEN trace ELSE Called("pods")
             /\ found' = hit
             /\ slept' = IF hit THEN slept ELSE slept + RECHECK_INTERVAL
             /\ last' = [poll |-> "pods", usedCache |-> useCache,
                         fetched |-> ~useCache, consulted |-> running_pods,
                         listNs |-> IF useCache THEN previous_return_list.ns
                                    ELSE namespace,
                         tries |-> tries, satisfied |-> hit, slept |-> ~hit,
                         outcome |-> IF raise THEN "timeout"
                                     ELSE IF hit THEN "success" ELSE "retry"]
             /\ done' = IF hit /\ ~raise
                        THEN [done EXCEPT !.pods = @ \cup {<<op, podIdx>>}]
                        ELSE done
             /\ tries' = IF raise THEN tries ELSE NextTry(tries)
             /\ loc' = IF raise THEN "entry" ELSE IF hit THEN "for" ELSE "while"
             /\ pc' = IF raise THEN AfterRaise("pods") ELSE pc
             /\ failure' = IF raise
                           THEN [NoFailure EXCEPT !.kind = "TimeoutError",
                                                  !.stage = "pods",
                                                  !.op = op,
                                                  !.pod = podIdx,
                                                  !.name = operator_data[op].name]
                           ELSE failure
  /\ UNCHANGED <<operator_data, catalog_sources, catalog_source, op, podIdx,
                 cluster, csProbes, requests, installed, created, submitted>>

(***************************************************************************)
(* install_dsci and install_datascience_cluster                            *)
(***************************************************************************)
\* install_dsci: one create() call, which returns or raises
InstallDsci ==
  /\ pc = "dsci"
  /\ \E ok \in BOOLEAN :
       /\ trace' = Called("dsci")
       /\ created' = IF ok THEN Append(created, "DSCInitialization") ELSE created
       /\ pc' = IF ok THEN NextStage("dsci") ELSE AfterRaise("dsci")
       /\ failure' = IF ok THEN failure
                     ELSE [NoFailure EXCEPT !.kind = "CreateError",
                                            !.stage = "dsci",
                                            !.name = "DSCInitialization"]
  /\ UNCHANGED <<loc, operator_data, catalog_sources, catalog_source, op, podIdx,
                 tries, found, previous_return_list, lastProbe, cluster, attempts, probes,
                 slept, csProbes, last, requests, installed, submitted, done>>

\* the documents install_datascience_cluster can build: the template is read
\* and the placeholder replaced by the URL
Documents ==
  { [valid |-> TRUE, template |-> template, url |-> trustyai_manifests_url,
     config |-> Replace(template, PLACEHOLDER, trustyai_manifests_url)] :
      template \in Templates, trustyai_manifests_url \in Urls }

\* install_datascience_cluster: the document is built and submitted by one
\* create() call, which returns or raises
InstallDatascienceCluster ==
  /\ pc = "dsc"
  /\ submitted' \in Documents
  /\ \E ok \in BOOLEAN :
       /\ trace' = Called("dsc")
       /\ created' = IF ok THEN Append(created, "DataScienceCluster") ELSE created
       /\ pc' = IF ok THEN NextStage("dsc") ELSE AfterRaise("dsc")
       /\ failure' = IF ok THEN failure
                     ELSE [NoFailure EXCEPT !.kind = "CreateError",
                                            !.stage = "dsc",
                                            !.name = "DataScienceCluster"]
  /\ UNCHANGED <<loc, operator_data, catalog_sources, catalog_source, op, podIdx,
                 tries, found, previous_return_list, lastProbe, cluster, attempts,
                 probes, slept, csProbes, last, requests, installed, done>>

Next ==
  \/ LoadConfig
  \/ LoadConfigMissing
  \/ WaitForCatalogSourcesEnter
  \/ CatalogSourcesNext
  \/ CatalogSourcesAttempt
  \/ WaitForPackageManifestsEnter
  \/ PackageManifestsNext
  \/ PackageManifestsAttempt
  \/ InstallOperatorsEnter
  \/ InstallOperatorsReturn
  \/ InstallOperator
  \/ VerifyOperatorRunningEnter
  \/ OperatorPodsNext
  \/ OperatorPodsAttempt
  \/ InstallDsci
  \/ InstallDatascienceCluster

Spec == Init /\ [][Next]_vars

\* the run is one sequential thread: while a step is possible, and every
\* cluster call and sleep returns, the next step is taken
FairSpec == Spec /\ WF_vars(Next)

(***************************************************************************)
(* Vocabulary of the properties.                                           *)
(***************************************************************************)
StageOrder == <<"cs", "pm", "install", "pods", "dsci", "dsc">>

StageIndex(stage) == CHOOSE i \in 1..Len(StageOrder) : StageOrder[i] = stage

\* the distinct catalog sources the configuration names
NamedSources == { operator_data[i].catalogSource : i \in 1..Len(operator_data) }

\* every (operator, pod-name substring) position of the configuration
PodTargets ==
  { <<o, p>> : o \in 1..Len(operator_data), p \in 1..2 } \cap
  { t \in (1..Len(operator_data)) \X (1..2) :
      t[2] <= Len(operator_data[t[1]].correspondingPods) }

\* the stage has finished its work for every target of the configuration
Completed(stage) ==
  CASE stage = "cs" -> done.cs = NamedSources
    [] stage = "pm" -> done.pm = 1..Len(operator_data)
    [] stage = "install" -> done.install = 1..Len(operator_data)
    [] stage = "pods" -> done.pods = PodTargets
    [] stage = "dsci" -> InList("DSCInitialization", created)
    [] OTHER -> InList("DataScienceCluster", created)

\* name holds the characters of target, in order, from some offset on
Contains(name, target) ==
  \E offset \in 0..Len(name) :
     /\ offset + Len(target) <= Len(name)
     /\ \A j \in 1..Len(target) : name[offset + j] = target[j]

\* the pod has exactly one container whose started flag is set
OneStarted(pod) ==
  Cardinality({ j \in 1..Len(pod.containerStatuses) : pod.containerStatuses[j] }) = 1

\* the pod list holds a pod ready for the target
ReadyIn(pods, target) ==
  \E i \in 1..Len(pods) : Contains(pods[i].name, target) /\ OneStarted(pods[i])

\* the target of the current iteration of verify_operator_running
CurrentPodTarget == operator_data[op].correspondingPods[podIdx]

\* the list consulted by the most recent attempt satisfies its poll's predicate
LastSatisfied ==
  CASE last.poll = "cs" -> \E i \in 1..Len(last.consulted) :
                              last.consulted[i] = catalog_source
    [] last.poll = "pm" -> \E i \in 1..Len(last.consulted) :
                              last.consulted[i] = operator_data[op].name
    [] last.poll = "pods" -> ReadyIn(last.consulted, CurrentPodTarget)
    [] OTHER -> FALSE

(***************************************************************************)
(* C1                                                                      *)
(***************************************************************************)
\* C1: once a stage has raised, the run is over: no cluster call (probe,
\* install request, create) is issued afterwards, nothing installed, created
\* or completed is undone, and a TimeoutError of wait_for_package_manifests
\* leaves install_operator uncalled.
C1_FirstFailureHalts ==
  /\ [][failure.kind # "none" =>
          UNCHANGED <<trace, probes, csProbes, requests, installed, created, submitted, done>>]_vars
  /\ [](failure.kind # "none" => pc = "Failed")
  /\ [](failure.stage = "pm" => requests = <<>>)

\* a run that ended in the TimeoutError of wait_for_package_manifests after
\* the catalog sources were found
C1_Witness ==
  /\ pc = "Failed"
  /\ failure.kind = "TimeoutError" /\ failure.stage = "pm"
  /\ done.cs # {}
  /\ Len(operator_data) = 2

(***************************************************************************)
(* C2                                                                      *)
(***************************************************************************)
\* C2: the stages issue their cluster calls in the order catalog sources,
\* package manifests, operator installation, operator pods, DSCI, DSC, never
\* returning to an earlier stage; a stage issues a call, and the run stands in
\* a stage, only when every earlier stage has completed for all its targets;
\* Done is reached only with both resources created, the DSCI first.
C2_StagesInOrder ==
  /\ \A i \in 1..Len(trace) : \A j \in 1..Len(trace) :
        i < j => StageIndex(trace[i]) < StageIndex(trace[j])
  /\ \A i \in 1..Len(trace) : \A k \in 1..(StageIndex(trace[i]) - 1) :
        Completed(StageOrder[k])
  /\ pc \in {"cs", "pm", "install", "pods", "dsci", "dsc"} =>
        \A k \in 1..(StageIndex(pc) - 1) : Completed(StageOrder[k])
  /\ pc = "Done" =>
        /\ \A k \in 1..Len(StageOrder) : Completed(StageOrder[k])
        /\ created = <<"DSCInitialization", "DataScienceCluster">>

\* a run of two operators that reached Done having called every stage
C2_Witness ==
  /\ pc = "Done"
  /\ Len(operator_data) = 2
  /\ trace = StageOrder

(***************************************************************************)
(* C3                                                                      *)
(***************************************************************************)
\* C3: in each of the three polls, an attempt whose consulted list satisfies
\* the predicate ends the poll of that target with success - no TimeoutError,
\* no sleep, no further attempt - and an attempt whose list does not satisfy
\* it never does; this at every attempt the loop executes.
C3_SuccessAtFirstSatisfiedAttempt ==
  last.poll # "none" =>
    /\ LastSatisfied =>
          /\ last.outcome = "success"
          /\ ~last.slept
          /\ failure.kind = "none"
          /\ loc = "for"
    /\ ~LastSatisfied => last.outcome # "success"

(***************************************************************************)
(* C4                                                                      *)
(***************************************************************************)
\* C4: a poll whose predicate was never satisfied raises TimeoutError after
\* exactly maxWait/interval + 1 attempts for the target: 61 for a catalog
\* source, 181 for a package manifest.
C4_TimeoutAfterMaxAttemptsPlusOne ==
  /\ (failure.kind = "TimeoutError" /\ failure.stage = "cs") =>
        attempts = CatalogLimit + 1
  /\ (failure.kind = "TimeoutError" /\ failure.stage = "pm" /\ ~LastSatisfied) =>
        attempts = ManifestLimit + 1

(***************************************************************************)
(* C5                                                                      *)
(***************************************************************************)
\* C5: one call of wait_for_catalog_sources issues at most 300/5 + 1 = 61
\* CatalogSource list calls.
C5_AtMost61CatalogProbes == csProbes <= CatalogLimit + 1

(***************************************************************************)
(* C6                                                                      *)
(***************************************************************************)
\* C6: when wait_for_catalog_sources returns, the most recently probed list
\* holds every catalog source the configuration names.
C6_AllSourcesVisibleAtReturn ==
  (pc = "cs" /\ loc = "for" /\ catalog_sources = {} /\ last.poll = "cs") =>
     \A c \in NamedSources :
        \E i \in 1..Len(last.consulted) : last.consulted[i] = c

(***************************************************************************)
(* C7                                                                      *)
(***************************************************************************)
\* C7: an attempt of verify_operator_running reports its target ready (found)
\* if and only if the consulted pod list holds a pod whose name contains the
\* target and that has exactly one started container; the loop of a target
\* ends without such a pod only by TimeoutError.
C7_ReadyIffOneStartedContainer ==
  last.poll = "pods" =>
    /\ found <=> ReadyIn(last.consulted, CurrentPodTarget)
    /\ last.satisfied <=> ReadyIn(last.consulted, CurrentPodTarget)
    /\ ~ReadyIn(last.consulted, CurrentPodTarget) =>
          \/ pc = "pods" /\ loc = "while" /\ attempts <= PodLimit + 1
          \/ /\ pc = "Failed"
             /\ failure.kind = "TimeoutError" /\ failure.stage = "pods"
             /\ failure.op = op /\ failure.pod = podIdx

\* verify_operator_running timed out on a list whose only name-matching pods
\* have zero or two started containers
C7_Witness ==
  /\ last.poll = "pods"
  /\ failure.kind = "TimeoutError" /\ failure.stage = "pods"
  /\ Len(last.consulted) = 2
  /\ \A i \in 1..2 :
        /\ Contains(last.consulted[i].name, CurrentPodTarget)
        /\ ~OneStarted(last.consulted[i])
  /\ \E i \in 1..2 : Len(last.consulted[i].containerStatuses) = 2
  /\ ~found

(***************************************************************************)
(* C8                                                                      *)
(***************************************************************************)
RECURSIVE FreshManifestFailure(_, _, _)
\* wait_for_package_manifests with a list call on every attempt, against a
\* cluster whose manifests do not change: the index of the operator it times
\* out on, from operator o on, or 0 when it returns
FreshManifestFailure(data, manifests, o) ==
  IF o > Len(data) THEN 0
  ELSE IF \E i \in 1..Len(manifests) : manifests[i] = data[o].name
       THEN FreshManifestFailure(data, manifests, o + 1)
       ELSE o

RECURSIVE FreshPodFailure(_, _, _)
\* verify_operator_running with a list call on every attempt, against a
\* cluster whose pods do not change: the position it times out on, from
\* position t on, or <<0, 0>> when it returns
FreshPodFailure(data, pods, t) ==
  IF t = <<0, 0>> THEN t
  ELSE IF ReadyIn(pods[data[t[1]].namespace], data[t[1]].correspondingPods[t[2]])
       THEN FreshPodFailure(data, pods, NextTarget(data, t[1], t[2]))
       ELSE t

\* C8: against the same cluster, wait_for_package_manifests and
\* verify_operator_running with the cached list end as the same loops with a
\* fresh list call on every attempt do: both return, or both raise
\* TimeoutError for the same target.
C8_CacheInvisible ==
  cluster.static =>
    /\ (pc = "pm" /\ loc = "for" /\ op >= Len(operator_data)) =>
          FreshManifestFailure(operator_data, cluster.manifests, 1) = 0
    /\ failure.stage = "pm" =>
          FreshManifestFailure(operator_data, cluster.manifests, 1) = failure.op
    /\ (pc = "pods" /\ loc = "for"
          /\ NextTarget(operator_data, op, podIdx) = <<0, 0>>) =>
          FreshPodFailure(operator_data, cluster.pods,
                          NextTarget(operator_data, 1, 0)) = <<0, 0>>
    /\ failure.stage = "pods" =>
          FreshPodFailure(operator_data, cluster.pods,
                          NextTarget(operator_data, 1, 0)) = <<failure.op, failure.pod>>

(***************************************************************************)
(* C9                                                                      *)
(***************************************************************************)
\* the starting version the configuration entry asks for
ExpectedCsv(operator) ==
  CASE operator.name = "n1" /\ operator.version = "1.0" -> "n1.v1.0"
    [] operator.name = "n2" /\ operator.version = "2.1" -> "n2.v2.1"
    [] OTHER -> "?"

\* C9: the i-th install_operator call is the call for the i-th operator entry,
\* with manual approval and starting version name.vversion; a call is issued
\* only when every earlier call returned; past the stage, there is exactly one
\* call per entry.
C9_OneRequestPerOperatorInOrder ==
  /\ Len(requests) <= Len(operator_data)
  /\ \A i \in 1..Len(requests) :
        /\ requests[i].name = operator_data[i].name
        /\ requests[i].channel = operator_data[i].channel
        /\ requests[i].source = operator_data[i].catalogSource
        /\ requests[i].operator_namespace = operator_data[i].namespace
        /\ requests[i].install_plan_approval = "Manual"
        /\ requests[i].starting_csv = ExpectedCsv(operator_data[i])
  /\ installed <= Len(requests) /\ Len(requests) <= installed + 1
  /\ Len(requests) > installed =>
        /\ pc = "Failed" /\ failure.stage = "install"
        /\ failure.op = Len(requests)
  /\ pc \in {"pods", "dsci", "dsc", "Done"} =>
        /\ Len(requests) = Len(operator_data)
        /\ installed = Len(operator_data)

\* install_operators has returned after installing two operators
C9_Witness ==
  /\ pc = "pods"
  /\ Len(operator_data) = 2
  /\ Len(requests) = 2
  /\ requests[1].name # requests[2].name

(***************************************************************************)
(* C10                                                                     *)
(***************************************************************************)
\* C10: the sleeps of wait_for_package_manifests for one operator sum to at
\* most 900 seconds.
C10_ManifestWaitAtMost900 ==
  (pc = "pm" \/ failure.stage = "pm") => slept <= ManifestMaxWait

(***************************************************************************)
(* C12                                                                     *)
(***************************************************************************)
\* C12: when the operator configuration file is missing, the run fails with
\* the FileNotFoundError and has issued no cluster call: no probe, no install
\* request, no create call.
C12_MissingConfigFailsBeforeAnyCall ==
  failure.kind = "FileNotFoundError" =>
    /\ pc = "Failed"
    /\ failure.stage = "load"
    /\ trace = <<>>
    /\ probes = 0 /\ csProbes = 0 /\ attempts = 0
    /\ requests = <<>> /\ installed = 0
    /\ created = <<>>
    /\ operator_data = <<>>

\* the run that found no configuration file
C12_Witness ==
  /\ failure.kind = "FileNotFoundError"
  /\ pc = "Failed"

(***************************************************************************)
(* C14                                                                     *)
(***************************************************************************)
\* C14, as the claim states it: verify_operator_running checks each target
\* once; a target not satisfied by the first list consulted for it raises
\* TimeoutError, and no later re-check reports it ready.
C14_SingleCheckPerTarget ==
  last.poll = "pods" =>
    /\ attempts = 1
    /\ ~LastSatisfied => failure.kind = "TimeoutError"

\* C14, amended: verify_operator_running checks each target up to three times
\* (tries = 0, 1, 2); a target satisfied by the list of the first or second
\* check is reported ready, also when the first check failed; a target not
\* satisfied by the first two checks ends in TimeoutError at the third check.
C14_UpToThreeChecksPerTarget ==
  last.poll = "pods" =>
    /\ attempts \in 1..3
    /\ attempts = last.tries + 1
    /\ (attempts <= 2 /\ LastSatisfied) =>
          /\ last.outcome = "success"
          /\ failure.kind = "none"
          /\ <<op, podIdx>> \in done.pods
    /\ (attempts <= 2 /\ ~LastSatisfied) =>
          /\ pc = "pods" /\ loc = "while"
          /\ failure.kind = "none"
    /\ attempts = 3 =>
          /\ pc = "Failed"
          /\ failure.kind = "TimeoutError" /\ failure.stage = "pods"
          /\ failure.op = op /\ failure.pod = podIdx
          /\ <<op, podIdx>> \notin done.pods

\* a target that was not ready at its first check is reported ready by the
\* second one
C14_Witness ==
  /\ last.poll = "pods"
  /\ attempts = 2
  /\ slept = RECHECK_INTERVAL
  /\ LastSatisfied
  /\ <<op, podIdx>> \in done.pods

(***************************************************************************)
(* C15                                                                     *)
(***************************************************************************)
\* C15: every pod list an attempt of verify_operator_running checks an
\* operator's pod-name substring against was listed from that operator's own
\* namespace, and so is the list on which the target is reported ready.
C15_PodListFromOwnNamespace ==
  last.poll = "pods" => last.listNs = operator_data[op].namespace

(***************************************************************************)
(* C16                                                                     *)
(***************************************************************************)
\* the current target is the first one of the running poll function
FirstTarget ==
  IF last.poll = "pm" THEN op = 1
  ELSE <<op, podIdx>> = NextTarget(operator_data, 1, 0)

\* the most recent list call was made for the target just before the current one
ProbedForPreviousTarget ==
  IF last.poll = "pm" THEN lastProbe.op = op - 1
  ELSE NextTarget(operator_data, lastProbe.op, lastProbe.pod) = <<op, podIdx>>

\* the most recent list call was made for a target before the current one
ProbedForEarlierTarget ==
  IF last.poll = "pm" THEN lastProbe.op < op
  ELSE \/ lastProbe.op < op
       \/ lastProbe.op = op /\ lastProbe.pod < podIdx

\* the most recent list call was made for the current target
ProbedForCurrentTarget ==
  /\ lastProbe.op = op
  /\ last.poll = "pods" => lastProbe.pod = podIdx

\* C16, the parts on which claim and amendment agree: the cached list is
\* consulted, with no list call, exactly on the first attempt of a target
\* other than the first; every other attempt issues one list call and
\* consults its result.
CacheUsedOnFirstAttemptOnly ==
  /\ last.usedCache <=> (last.tries = 0 /\ ~FirstTarget)
  /\ last.usedCache =>
        /\ ~last.fetched
        /\ probes = 0
        /\ lastProbe.valid
        /\ last.consulted = lastProbe.items
  /\ ~last.usedCache =>
        /\ last.fetched
        /\ last.consulted = lastProbe.items
        /\ ProbedForCurrentTarget
        /\ probes = attempts - (IF FirstTarget THEN 0 ELSE 1)

\* C16, as the claim states it: the list consulted from the cache is the list
\* of the most recent probe made for the previous target.
C16_CachedListProbedForPreviousTarget ==
  last.poll \in {"pm", "pods"} =>
    /\ CacheUsedOnFirstAttemptOnly
    /\ last.usedCache => ProbedForPreviousTarget

\* C16, amended: the list consulted from the cache is the list of the most
\* recent probe made in this call of the function, made for the previous
\* target or, when that target was itself settled from the cache, for an
\* earlier one.
C16_CachedListIsMostRecentProbe ==
  last.poll \in {"pm", "pods"} =>
    /\ CacheUsedOnFirstAttemptOnly
    /\ last.usedCache => ProbedForEarlierTarget

\* the third target consults the list probed for the first one, the second
\* having been settled from the cache
C16_Witness ==
  /\ last.poll = "pods"
  /\ last.usedCache
  /\ lastProbe.op = 1 /\ lastProbe.pod = 1
  /\ op = 2 /\ podIdx = 2
  /\ last.consulted = lastProbe.items

(***************************************************************************)
(* C13                                                                     *)
(***************************************************************************)
\* the positions of text at which the token starts
Occurrences(text) ==
  { i \in 1..Len(text) :
      /\ i + Len(PLACEHOLDER) - 1 <= Len(text)
      /\ \A k \in 1..Len(PLACEHOLDER) : text[i + k - 1] = PLACEHOLDER[k] }

\* position j of text lies inside an occurrence of the token
InToken(text, j) ==
  \E i \in Occurrences(text) : i <= j /\ j < i + Len(PLACEHOLDER)

\* how many occurrences of the token end before position j of text
TokensBefore(text, j) ==
  Cardinality({ i \in Occurrences(text) : i + Len(PLACEHOLDER) <= j })

\* where position j of the template lands in a document in which every token
\* before it has become url
Landing(text, url, j) ==
  j + TokensBefore(text, j) * (Len(url) - Len(PLACEHOLDER))

\* C13: for a URL that does not contain the placeholder token, the submitted
\* document is the template with every token replaced by exactly that URL,
\* every other character kept, in the same order; and no other such URL gives
\* the same document when the template contains the token.
C13_SubstitutionExactAndInjective ==
  (submitted.valid /\ ~Contains(submitted.url, PLACEHOLDER)) =>
    LET t == submitted.template
        u == submitted.url
        d == submitted.config
    IN /\ Len(d) = Len(t) + Cardinality(Occurrences(t)) * (Len(u) - Len(PLACEHOLDER))
       /\ \A j \in 1..Len(t) : ~InToken(t, j) => d[Landing(t, u, j)] = t[j]
       /\ \A i \in Occurrences(t) : \A k \in 1..Len(u) :
             d[Landing(t, u, i) + k - 1] = u[k]
       /\ Occurrences(t) # {} =>
             \A other \in Urls \ {u} :
                ~Contains(other, PLACEHOLDER) => Replace(t, PLACEHOLDER, other) # d

\* a document built from a template with two tokens and a non-empty URL that
\* is a part of the token
C13_Witness ==
  /\ submitted.valid
  /\ Cardinality(Occurrences(submitted.template)) = 2
  /\ Len(submitted.template) > 2 * Len(PLACEHOLDER)
  /\ submitted.url = TokenTail
  /\ InList("DataScienceCluster", created)

(***************************************************************************)
(* C11                                                                     *)
(***************************************************************************)
\* C11: every poll makes a bounded number of attempts for a target, and every
\* run in which each cluster call and sleep returns reaches Done or Failed.
C11_EveryRunTerminates ==
  /\ [](/\ pc = "cs" => attempts <= CatalogLimit + 2
        /\ pc = "pm" => attempts <= ManifestLimit + 2
        /\ pc = "pods" => attempts <= PodLimit + 2)
  /\ <>(pc \in {"Done", "Failed"})

\* a run ended by the TimeoutError of a catalog source that never appeared
C11_Witness ==
  /\ pc = "Failed"
  /\ failure.kind = "TimeoutError" /\ failure.stage = "cs"
  /\ attempts = CatalogLimit + 2
  /\ done.cs = {}

====
